---------------------------- MODULE Spec2Model ----------------------------
(* A model of stock_analysis_app.py: one run of the Streamlit script over  *)
(* the sidebar's widget values and the price history the provider returns, *)
(* and the reruns a widget change triggers.                                *)
(*                                                                         *)
(* Numbers are exact rationals <<n, d>> in lowest terms with d >= 0; the   *)
(* IEEE specials the script can produce are the pairs with d = 0:          *)
(* <<0,0>> is NaN ("undefined"), <<1,0>> is +inf and <<-1,0>> is -inf.     *)
(* The only inexact operation is the square root, rounded down to a        *)
(* multiple of 1/Scale.                                                    *)
EXTENDS Integers, Sequences, FiniteSets, TLC

\* ------------------------------------------------------------ bounds
MaxLen == 4
MaxPrice == 2
MaxPeriod == 3
Scale == 10
MaxReruns == 1

\* ------------------------------------------------- widget ranges (sidebar)
PeriodMin == 1
PeriodDefault == 20
BbStdMin == 1
BbStdMax == 4
BbStdDefault == 2
RsiUpperMin == 50
RsiUpperMax == 90
RsiUpperDefault == 70
RsiLowerMin == 10
RsiLowerMax == 50
RsiLowerDefault == 30

\* ------------------------------------------------------ float arithmetic
Abs(k) == IF k < 0 THEN -k ELSE k

Sign(k) == IF k < 0 THEN -1 ELSE IF k > 0 THEN 1 ELSE 0

RECURSIVE GCD(_, _)
GCD(a, b) == IF b = 0 THEN a ELSE GCD(b, a % b)

\* <<n, d>> in lowest terms with a non-negative denominator.
Norm(n, d) ==
    IF d = 0 THEN <<Sign(n), 0>>
    ELSE LET g == GCD(Abs(n), Abs(d))
             s == IF d < 0 THEN -1 ELSE 1
         IN  <<(s * n) \div g, (s * d) \div g>>

NaN == <<0, 0>>

R(k) == <<k, 1>>

IsNaN(x) == x[1] = 0 /\ x[2] = 0

IsInf(x) == x[1] # 0 /\ x[2] = 0

IsFinite(x) == x[2] > 0

Neg(a) == <<-a[1], a[2]>>

\* a + b; inf + inf of one sign is inf, of opposite signs NaN.
Add(a, b) ==
    IF IsInf(a) /\ IsInf(b)
    THEN (IF a[1] = b[1] THEN a ELSE NaN)
    ELSE Norm(a[1] * b[2] + b[1] * a[2], a[2] * b[2])

Sub(a, b) == Add(a, Neg(b))

Mul(a, b) == Norm(a[1] * b[1], a[2] * b[2])

\* a / b; x/0 is +-inf for x # 0 and NaN for x = 0, x/inf is 0.
Div(a, b) ==
    IF b[1] < 0 THEN Norm(-(a[1] * b[2]), -(a[2] * b[1]))
    ELSE IF IsInf(b) THEN (IF IsFinite(a) THEN R(0) ELSE NaN)
    ELSE Norm(a[1] * b[2], a[2] * b[1])

\* a <= b on finite values.
Le(a, b) == a[1] * b[2] <= b[1] * a[2]

RECURSIVE SqrtFrom(_, _)
SqrtFrom(v, r) == IF (r + 1) * (r + 1) > v THEN r ELSE SqrtFrom(v, r + 1)

\* The largest r with r*r <= v.
ISqrt(v) == SqrtFrom(v, 0)

\* sqrt of a rational, rounded down to a multiple of 1/Scale; a negative
\* radicand gives 0 (pandas' zsqrt), NaN stays NaN.
Sqrt(a) ==
    IF IsNaN(a) THEN NaN
    ELSE IF IsInf(a) THEN (IF a[1] > 0 THEN a ELSE R(0))
    ELSE IF a[1] < 0 THEN R(0)
    ELSE Norm(ISqrt((a[1] * Scale * Scale) \div a[2]), Scale)

\* ------------------------------------------------------------ pandas Series
\* A Series is its index (the bars' timestamps) and its values.
Series(idx, vals) == [index |-> idx, values |-> vals]

NoSeries == Series(<<>>, <<>>)

\* k + s, k - s, k * s and k / s for a whole number k, element by element.
ScalarAdd(k, s) == Series(s.index, [i \in 1..Len(s.values) |-> Add(R(k), s.values[i])])

ScalarSub(k, s) == Series(s.index, [i \in 1..Len(s.values) |-> Sub(R(k), s.values[i])])

ScalarMul(k, s) == Series(s.index, [i \in 1..Len(s.values) |-> Mul(R(k), s.values[i])])

ScalarDiv(k, s) == Series(s.index, [i \in 1..Len(s.values) |-> Div(R(k), s.values[i])])

\* s + t and s - t of two Series over the same index.
SeriesAdd(s, t) ==
    Series(s.index, [i \in 1..Len(s.values) |-> Add(s.values[i], t.values[i])])

SeriesSub(s, t) ==
    Series(s.index, [i \in 1..Len(s.values) |-> Sub(s.values[i], t.values[i])])

\* Series.pct_change(): s[i] / s[i-1] - 1, NaN at the first position.
PctChange(s) ==
    Series(s.index,
           [i \in 1..Len(s.values) |->
               IF i = 1 THEN NaN
               ELSE Sub(Div(s.values[i], s.values[i - 1]), R(1))])

RECURSIVE KeepIdx(_, _)
KeepIdx(vals, i) ==
    IF i > Len(vals) THEN <<>>
    ELSE (IF IsNaN(vals[i]) THEN <<>> ELSE <<i>>) \o KeepIdx(vals, i + 1)

\* Series.dropna(): the rows whose value is NaN are removed, label and all;
\* an infinite value is kept.
DropNa(s) ==
    LET keep == KeepIdx(s.values, 1)
    IN  Series([j \in 1..Len(keep) |-> s.index[keep[j]]],
               [j \in 1..Len(keep) |-> s.values[keep[j]]])

\* Rolling._prep_values: an infinite value enters the window as NaN.
PrepValue(x) == IF IsInf(x) THEN NaN ELSE x

\* The window state after observation i: <<nobs, sum_x, sum_xx>>, each
\* observation added when it enters and removed p positions later; NaN
\* observations are skipped.
RECURSIVE Window(_, _, _)
Window(vals, p, i) ==
    IF i = 0 THEN <<0, R(0), R(0)>>
    ELSE LET w    == Window(vals, p, i - 1)
             x    == PrepValue(vals[i])
             a    == IF IsNaN(x) THEN w
                     ELSE <<w[1] + 1, Add(w[2], x), Add(w[3], Mul(x, x))>>
             old  == IF i > p THEN PrepValue(vals[i - p]) ELSE NaN
         IN  IF IsNaN(old) THEN a
             ELSE <<a[1] - 1, Sub(a[2], old), Sub(a[3], Mul(old, old))>>

\* RollingMean with min_periods = 1: a value as soon as one bar is in.
RollingMeanMinPeriods1(s, p) ==
    Series(s.index,
           [i \in 1..Len(s.values) |->
               LET w == Window(s.values, p, i)
               IN  IF w[1] >= 1 THEN Div(w[2], R(w[1])) ELSE NaN])

\* Series.rolling(window=p).mean(): min_periods defaults to the window.
RollingMean(s, p) ==
    Series(s.index,
           [i \in 1..Len(s.values) |->
               LET w == Window(s.values, p, i)
               IN  IF w[1] >= p THEN Div(w[2], R(w[1])) ELSE NaN])

\* Series.rolling(window=p).std(): the sample deviation (ddof = 1), which
\* needs more than one observation.
RollingStdDdof(s, p, ddof) ==
    Series(s.index,
           [i \in 1..Len(s.values) |->
               LET w == Window(s.values, p, i)
               IN  IF w[1] >= p /\ w[1] > ddof
                   THEN Sqrt(Div(Sub(w[3], Div(Mul(w[2], w[2]), R(w[1]))),
                                 R(w[1] - ddof)))
                   ELSE NaN])

\* RollingStd as the population deviation (ddof = 0).
RollingStdPopulation(s, p) == RollingStdDdof(s, p, 0)

RollingStd(s, p) == RollingStdDdof(s, p, 1)

\* ------------------------------------------------------------------ state
VARIABLES
    history,        \* the closes yf.download returns for the selected ticker
    volume_flag, sma_flag, sma_periods,
    bb_flag, bb_periods, bb_std,
    rsi_flag, rsi_periods, rsi_upper, rsi_lower,
    pc,             \* the script's position
    df,             \* the loaded frame's Close column, over df.index
    fig,            \* the figure's traces, in the order added
    hlines,         \* the horizontal lines added to the figure
    sma, rolling_mean, rolling_std, upper_band, lower_band, rsi,
    computed,       \* the indicator branches this run has executed
    error,          \* the st.error message shown below the title
    shown,          \* whether the chart has been rendered
    runs,           \* reruns of the script so far
    changed,        \* the widget whose change triggered this run
    prev            \* what the previous run computed

widgets == <<volume_flag, sma_flag, sma_periods, bb_flag, bb_periods, bb_std,
             rsi_flag, rsi_periods, rsi_upper, rsi_lower>>

outputs == <<sma, rolling_mean, rolling_std, upper_band, lower_band, rsi>>

session == <<runs, changed, prev>>

vars == <<history, widgets, pc, df, fig, hlines, outputs, computed, error,
          shown, session>>

Outputs == [sma |-> sma, upper_band |-> upper_band,
            lower_band |-> lower_band, rsi |-> rsi, computed |-> computed]

NoOutputs == [sma |-> NoSeries, upper_band |-> NoSeries,
              lower_band |-> NoSeries, rsi |-> NoSeries, computed |-> {}]

\* The provider's answer as a frame: bar i has timestamp i.
Frame(closes) ==
    Series([i \in 1..Len(closes) |-> i], [i \in 1..Len(closes) |-> R(closes[i])])

RECURSIVE SeqsUpTo(_, _)
SeqsUpTo(S, n) ==
    IF n = 0 THEN {<<>>}
    ELSE LET shorter == SeqsUpTo(S, n - 1)
         IN  shorter \cup {Append(q, v) : q \in {r \in shorter : Len(r) = n - 1}, v \in S}

Prices == 0..MaxPrice

Closes == SeqsUpTo(Prices, MaxLen)

Periods == PeriodMin..MaxPeriod

BbStds == BbStdMin..BbStdMax

RsiUppers == {RsiUpperMin, RsiUpperDefault, RsiUpperMax}

RsiLowers == {RsiLowerMin, RsiLowerDefault, RsiLowerMax}

\* A fresh run of the script: nothing loaded, an empty figure.
Fresh ==
    /\ pc = "load"
    /\ df = NoSeries
    /\ fig = <<>>
    /\ hlines = <<>>
    /\ sma = NoSeries
    /\ rolling_mean = NoSeries
    /\ rolling_std = NoSeries
    /\ upper_band = NoSeries
    /\ lower_band = NoSeries
    /\ rsi = NoSeries
    /\ computed = {}
    /\ error = ""
    /\ shown = FALSE

FirstRun ==
    /\ Fresh
    /\ runs = 0
    /\ changed = "none"
    /\ prev = NoOutputs

\* The sidebar as the widgets' declarations leave it.
VolumeDefault == volume_flag = FALSE

SMADefault == sma_flag = FALSE /\ sma_periods = PeriodDefault

BBDefault == bb_flag = FALSE /\ bb_periods = PeriodDefault /\ bb_std = BbStdDefault

RSIDefault ==
    /\ rsi_flag = FALSE
    /\ rsi_periods = PeriodDefault
    /\ rsi_upper = RsiUpperDefault
    /\ rsi_lower = RsiLowerDefault

\* A zig-zag price history of n bars: 2, 1, 2, ...
ZigZag(n) == [i \in 1..n |-> 1 + (i % 2)]

\* A session: any combination of the four checkboxes over a short history,
\* the periods at the smallest window that has a deviation.
Init ==
    /\ history \in {ZigZag(n) : n \in 0..MaxLen}
    /\ volume_flag \in BOOLEAN
    /\ sma_flag \in BOOLEAN
    /\ bb_flag \in BOOLEAN
    /\ rsi_flag \in BOOLEAN
    /\ sma_periods = PeriodMin + 1
    /\ bb_periods = PeriodMin + 1
    /\ rsi_periods = PeriodMin + 1
    /\ bb_std = BbStdDefault
    /\ rsi_upper = RsiUpperDefault
    /\ rsi_lower = RsiLowerDefault
    /\ FirstRun

\* ---------------------------------------------------------------- the script
\* df = load_data(ticker, start_date, end_date)
LoadData ==
    /\ pc = "load"
    /\ df' = Frame(history)
    /\ pc' = "check"
    /\ UNCHANGED <<history, widgets, fig, hlines, outputs, computed, error,
                   shown, session>>

NoDataMessage == "No data available for the selected stock symbol and date range."

\* if df.empty: st.error(...), and the script ends.
NoData ==
    /\ pc = "check"
    /\ Len(df.values) = 0
    /\ error' = NoDataMessage
    /\ pc' = "done"
    /\ UNCHANGED <<history, widgets, df, fig, hlines, outputs, computed,
                   shown, session>>

Trace(name, param, s) == [name |-> name, param |-> param, x |-> df.index, y |-> s.values]

\* AddCandlestick without the df.empty test before it.
AddCandlestickUnguarded ==
    /\ pc = "check"
    /\ fig' = Append(fig, Trace("Price", 0, df))
    /\ pc' = "volume"
    /\ UNCHANGED <<history, widgets, df, hlines, outputs, computed, error,
                   shown, session>>

AddCandlestick ==
    /\ pc = "check"
    /\ Len(df.values) > 0
    /\ fig' = Append(fig, Trace("Price", 0, df))
    /\ pc' = "volume"
    /\ UNCHANGED <<history, widgets, df, hlines, outputs, computed, error,
                   shown, session>>

AddVolume ==
    /\ pc = "volume"
    /\ fig' = IF volume_flag
              THEN Append(fig, [name |-> "Volume", param |-> 0, x |-> df.index])
              ELSE fig
    /\ pc' = "sma"
    /\ UNCHANGED <<history, widgets, df, hlines, outputs, computed, error,
                   shown, session>>

\* AddSMA reading the Bollinger expander's window.
AddSMASharedWindow ==
    /\ pc = "sma"
    /\ IF sma_flag
       THEN LET s == RollingMean(df, bb_periods)
            IN  /\ sma' = s
                /\ fig' = Append(fig, Trace("SMA", sma_periods, s))
                /\ computed' = computed \cup {"sma"}
       ELSE UNCHANGED <<sma, fig, computed>>
    /\ pc' = "bb"
    /\ UNCHANGED <<history, widgets, df, hlines, rolling_mean, rolling_std,
                   upper_band, lower_band, rsi, error, shown, session>>

AddSMA ==
    /\ pc = "sma"
    /\ IF sma_flag
       THEN LET s == RollingMean(df, sma_periods)
            IN  /\ sma' = s
                /\ fig' = Append(fig, Trace("SMA", sma_periods, s))
                /\ computed' = computed \cup {"sma"}
       ELSE UNCHANGED <<sma, fig, computed>>
    /\ pc' = "bb"
    /\ UNCHANGED <<history, widgets, df, hlines, rolling_mean, rolling_std,
                   upper_band, lower_band, rsi, error, shown, session>>

UpperBand(m, s, k) == SeriesAdd(m, ScalarMul(k, s))

\* LowerBand with the deviation added instead of subtracted.
LowerBandAdded(m, s, k) == SeriesAdd(m, ScalarMul(k, s))

LowerBand(m, s, k) == SeriesSub(m, ScalarMul(k, s))

AddBollinger ==
    /\ pc = "bb"
    /\ IF bb_flag
       THEN LET m  == RollingMean(df, bb_periods)
                s  == RollingStd(df, bb_periods)
                up == UpperBand(m, s, bb_std)
                lo == LowerBand(m, s, bb_std)
            IN  /\ rolling_mean' = m
                /\ rolling_std' = s
                /\ upper_band' = up
                /\ lower_band' = lo
                /\ fig' = fig \o <<Trace("Upper Bollinger Band", 0, up),
                                   Trace("Lower Bollinger Band", 0, lo)>>
                /\ computed' = computed \cup {"bb"}
       ELSE UNCHANGED <<rolling_mean, rolling_std, upper_band, lower_band,
                        fig, computed>>
    /\ pc' = "rsi"
    /\ UNCHANGED <<history, widgets, df, hlines, sma, rsi, error, shown,
                   session>>

\* GrowthFactor without the + 1: the plain percentage change.
GrowthFactorNoPlusOne(close) == DropNa(PctChange(close))

\* df['Close'].pct_change().dropna() + 1
GrowthFactor(close) == ScalarAdd(1, DropNa(PctChange(close)))

\* RSI without the 1 + in the denominator.
RSINoOnePlus(close, p) ==
    ScalarSub(100, ScalarDiv(100, RollingMean(GrowthFactor(close), p)))

\* 100 - (100 / (1 + GrowthFactor.rolling(window=p).mean()))
RSI(close, p) ==
    ScalarSub(100, ScalarDiv(100, ScalarAdd(1, RollingMean(GrowthFactor(close), p))))

AddRSI ==
    /\ pc = "rsi"
    /\ IF rsi_flag
       THEN LET s == RSI(df, rsi_periods)
            IN  /\ rsi' = s
                /\ fig' = Append(fig, Trace("RSI", rsi_periods, s))
                /\ hlines' = hlines \o <<rsi_upper, rsi_lower>>
                /\ computed' = computed \cup {"rsi"}
       ELSE UNCHANGED <<rsi, fig, hlines, computed>>
    /\ pc' = "show"
    /\ UNCHANGED <<history, widgets, df, sma, rolling_mean, rolling_std,
                   upper_band, lower_band, error, shown, session>>

\* fig.update_layout(...); fig.show(...); st.plotly_chart(fig)
ShowChart ==
    /\ pc = "show"
    /\ shown' = TRUE
    /\ pc' = "done"
    /\ UNCHANGED <<history, widgets, df, fig, hlines, outputs, computed,
                   error, session>>

Run ==
    \/ LoadData
    \/ NoData
    \/ AddCandlestick
    \/ AddVolume
    \/ AddSMA
    \/ AddBollinger
    \/ AddRSI
    \/ ShowChart

\* One widget changes and Streamlit runs the script again from the top; the
\* download is cached, so the history is the same.
Rerun ==
    /\ pc = "done"
    /\ runs < MaxReruns
    /\ \/ changed' = "volume_flag" /\ volume_flag' = ~volume_flag
          /\ UNCHANGED <<sma_flag, sma_periods, bb_flag, bb_periods, bb_std,
                         rsi_flag, rsi_periods, rsi_upper, rsi_lower>>
       \/ changed' = "sma_flag" /\ sma_flag' = ~sma_flag
          /\ UNCHANGED <<volume_flag, sma_periods, bb_flag, bb_periods, bb_std,
                         rsi_flag, rsi_periods, rsi_upper, rsi_lower>>
       \/ changed' = "sma_periods" /\ sma_periods' \in Periods \ {sma_periods}
          /\ UNCHANGED <<volume_flag, sma_flag, bb_flag, bb_periods, bb_std,
                         rsi_flag, rsi_periods, rsi_upper, rsi_lower>>
       \/ changed' = "bb_flag" /\ bb_flag' = ~bb_flag
          /\ UNCHANGED <<volume_flag, sma_flag, sma_periods, bb_periods, bb_std,
                         rsi_flag, rsi_periods, rsi_upper, rsi_lower>>
       \/ changed' = "bb_periods" /\ bb_periods' \in Periods \ {bb_periods}
          /\ UNCHANGED <<volume_flag, sma_flag, sma_periods, bb_flag, bb_std,
                         rsi_flag, rsi_periods, rsi_upper, rsi_lower>>
       \/ changed' = "bb_std" /\ bb_std' \in BbStds \ {bb_std}
          /\ UNCHANGED <<volume_flag, sma_flag, sma_periods, bb_flag, bb_periods,
                         rsi_flag, rsi_periods, rsi_upper, rsi_lower>>
       \/ changed' = "rsi_flag" /\ rsi_flag' = ~rsi_flag
          /\ UNCHANGED <<volume_flag, sma_flag, sma_periods, bb_flag, bb_periods,
                         bb_std, rsi_periods, rsi_upper, rsi_lower>>
       \/ changed' = "rsi_periods" /\ rsi_periods' \in Periods \ {rsi_periods}
          /\ UNCHANGED <<volume_flag, sma_flag, sma_periods, bb_flag, bb_periods,
                         bb_std, rsi_flag, rsi_upper, rsi_lower>>
       \/ changed' = "rsi_upper" /\ rsi_upper' \in RsiUppers \ {rsi_upper}
          /\ UNCHANGED <<volume_flag, sma_flag, sma_periods, bb_flag, bb_periods,
                         bb_std, rsi_flag, rsi_periods, rsi_lower>>
       \/ changed' = "rsi_lower" /\ rsi_lower' \in RsiLowers \ {rsi_lower}
          /\ UNCHANGED <<volume_flag, sma_flag, sma_periods, bb_flag, bb_periods,
                         bb_std, rsi_flag, rsi_periods, rsi_upper>>
    /\ prev' = Outputs
    /\ runs' = runs + 1
    /\ pc' = "load"
    /\ df' = NoSeries
    /\ fig' = <<>>
    /\ hlines' = <<>>
    /\ sma' = NoSeries
    /\ rolling_mean' = NoSeries
    /\ rolling_std' = NoSeries
    /\ upper_band' = NoSeries
    /\ lower_band' = NoSeries
    /\ rsi' = NoSeries
    /\ computed' = {}
    /\ error' = ""
    /\ shown' = FALSE
    /\ UNCHANGED history

Next == Run \/ Rerun

Spec == Init /\ [][Next]_vars

\* ------------------------------------------------- single-indicator sessions
\* The SMA alone, over every short history and every window.
InitSMA ==
    /\ history \in Closes
    /\ VolumeDefault /\ BBDefault /\ RSIDefault
    /\ sma_flag \in BOOLEAN
    /\ sma_periods \in Periods
    /\ FirstRun

SpecSMA == InitSMA /\ [][Run]_vars

\* The Bollinger bands alone.
InitBB ==
    /\ history \in Closes
    /\ VolumeDefault /\ SMADefault /\ RSIDefault
    /\ bb_flag \in BOOLEAN
    /\ bb_periods \in Periods
    /\ bb_std \in BbStds
    /\ FirstRun

SpecBB == InitBB /\ [][Run]_vars

\* The RSI alone, with its threshold lines.
InitRSI ==
    /\ history \in Closes
    /\ VolumeDefault /\ SMADefault /\ BBDefault
    /\ rsi_flag \in BOOLEAN
    /\ rsi_periods \in Periods
    /\ rsi_upper \in RsiUppers
    /\ rsi_lower \in RsiLowers
    /\ FirstRun

SpecRSI == InitRSI /\ [][Run]_vars

\* ------------------------------------------------------------- properties
RECURSIVE SumRange(_, _, _)
SumRange(q, lo, hi) == IF lo > hi THEN 0 ELSE q[hi] + SumRange(q, lo, hi - 1)

Defined(v) == ~IsNaN(v)

\* C1: the SMA has one position per bar; its first p-1 positions are
\* undefined; from position p on (counting from 1) the value is the
\* arithmetic mean of the last p closes.
SMAIsWindowMean ==
    "sma" \in computed =>
        /\ Len(sma.values) = Len(history)
        /\ sma.index = df.index
        /\ \A i \in 1..Len(history) :
              IF i < sma_periods
              THEN IsNaN(sma.values[i])
              ELSE /\ IsFinite(sma.values[i])
                   /\ sma.values[i][1] * sma_periods
                        = SumRange(history, i - sma_periods + 1, i) * sma.values[i][2]

\* C1 witness: a finished run whose window has slid at least once over a
\* history that is not flat, with a mean that is not a whole number.
SMASlidWindow ==
    /\ pc = "done"
    /\ "sma" \in computed
    /\ sma_periods >= 2
    /\ Len(history) > sma_periods
    /\ history[1] # history[Len(history)]
    /\ sma.values[Len(history)][2] > 1

StrictlyIncreasing(q) == \A i \in 1..(Len(q) - 1) : q[i] < q[i + 1]

Flat(q) == \A i \in 1..Len(q) : q[i] = q[1]

\* C2: over a strictly increasing history of at least period+1 bars, every
\* defined RSI value is 100.
IncreasingRSIIs100 ==
    ("rsi" \in computed /\ StrictlyIncreasing(history)
        /\ Len(history) >= rsi_periods + 1) =>
        \A i \in 1..Len(rsi.values) :
            Defined(rsi.values[i]) => rsi.values[i] = R(100)

\* C3: over a non-empty history of non-negative closes and a period within
\* the widget's range, every defined RSI value is a number in [0, 100].
RSIWithinRange ==
    "rsi" \in computed =>
        \A i \in 1..Len(rsi.values) :
            Defined(rsi.values[i]) =>
                /\ IsFinite(rsi.values[i])
                /\ Le(R(0), rsi.values[i])
                /\ Le(rsi.values[i], R(100))

\* C3 witness: a finished run over a history with a zero close followed by
\* a positive one (an infinite change) that still has a defined RSI value,
\* at the lower end of the range.
RSIAtRangeEnd ==
    /\ pc = "done"
    /\ "rsi" \in computed
    /\ \E i \in 1..(Len(history) - 1) : history[i] = 0 /\ history[i + 1] > 0
    /\ \E i \in 1..Len(rsi.values) : rsi.values[i] = R(0)

\* C4: over a flat history of at least period+1 bars, every defined RSI
\* value is 50.
FlatRSIIs50 ==
    ("rsi" \in computed /\ Flat(history) /\ Len(history) >= rsi_periods + 1) =>
        \A i \in 1..Len(rsi.values) :
            Defined(rsi.values[i]) => rsi.values[i] = R(50)

\* C4 witness: a finished run over a flat history with a defined RSI value.
FlatRSIDefined ==
    /\ pc = "done"
    /\ "rsi" \in computed
    /\ Flat(history)
    /\ Len(history) >= rsi_periods + 1
    /\ rsi_periods >= 2
    /\ \E i \in 1..Len(rsi.values) : rsi.values[i] = R(50)

\* C5: the RSI trace handed to the chart has one value per bar, value i
\* belongs to timestamp i of the frame, and exactly its first `period`
\* values are undefined.
RSIAlignedToBars ==
    "rsi" \in computed =>
        \E j \in 1..Len(fig) :
            /\ fig[j].name = "RSI"
            /\ Len(fig[j].y) = Len(df.index)
            /\ fig[j].x = rsi.index
            /\ \A i \in 1..Len(fig[j].y) :
                  IsNaN(fig[j].y[i]) <=> i <= rsi_periods

\* C6: over an empty history the run ends at the "no data" message, whatever
\* is enabled: no indicator branch runs, every indicator's output is empty,
\* the figure gets no trace and the chart is not rendered.
EmptyHistoryIsNoData ==
    Len(history) = 0 =>
        /\ pc \in {"load", "check", "done"}
        /\ computed = {}
        /\ sma.values = <<>>
        /\ upper_band.values = <<>>
        /\ lower_band.values = <<>>
        /\ rsi.values = <<>>
        /\ fig = <<>>
        /\ hlines = <<>>
        /\ ~shown
        /\ (pc = "done" => error = NoDataMessage)

\* C6 witness: a finished run over an empty history with all three
\* indicators enabled.
EmptyHistoryAllEnabled ==
    /\ pc = "done"
    /\ Len(history) = 0
    /\ sma_flag /\ bb_flag /\ rsi_flag
    /\ error = NoDataMessage

\* C7: wherever a Bollinger band is defined, lower <= mean <= upper, the
\* upper band is the mean plus bb_std deviations and the lower band the
\* mean minus bb_std deviations.
BandsEncloseMean ==
    "bb" \in computed =>
        \A i \in 1..Len(df.values) :
            (Defined(upper_band.values[i]) \/ Defined(lower_band.values[i])) =>
                /\ IsFinite(upper_band.values[i])
                /\ IsFinite(lower_band.values[i])
                /\ IsFinite(rolling_mean.values[i])
                /\ IsFinite(rolling_std.values[i])
                /\ Le(lower_band.values[i], rolling_mean.values[i])
                /\ Le(rolling_mean.values[i], upper_band.values[i])
                /\ Sub(upper_band.values[i], rolling_mean.values[i])
                     = Mul(R(bb_std), rolling_std.values[i])
                /\ Sub(rolling_mean.values[i], lower_band.values[i])
                     = Mul(R(bb_std), rolling_std.values[i])

\* C7 witness: a finished run with a multiplier above 1 and a position
\* where the bands are strictly apart.
BandsApart ==
    /\ pc = "done"
    /\ "bb" \in computed
    /\ bb_std >= 2
    /\ \E i \in 1..Len(df.values) :
          /\ IsFinite(upper_band.values[i])
          /\ IsFinite(lower_band.values[i])
          /\ ~Le(upper_band.values[i], lower_band.values[i])

\* C8: the threshold lines drawn with the RSI have the upper one strictly
\* above the lower one.
ThresholdsOrdered == hlines # <<>> => hlines[1] > hlines[2]

\* C9: both bands are undefined wherever the rolling mean or the rolling
\* deviation is, which includes the first period-1 positions and, for a
\* period of 1, every position.
BandsUndefinedWithWindow ==
    "bb" \in computed =>
        /\ Len(upper_band.values) = Len(df.values)
        /\ Len(lower_band.values) = Len(df.values)
        /\ \A i \in 1..Len(df.values) :
              (\/ IsNaN(rolling_mean.values[i])
               \/ IsNaN(rolling_std.values[i])
               \/ i < bb_periods
               \/ bb_periods = 1) =>
                  /\ IsNaN(upper_band.values[i])
                  /\ IsNaN(lower_band.values[i])

\* C9 witness: a finished run with a period of 1, where the mean is defined
\* and the bands are not.
BandsUndefinedAtPeriodOne ==
    /\ pc = "done"
    /\ "bb" \in computed
    /\ bb_periods = 1
    /\ \E i \in 1..Len(df.values) :
          /\ IsFinite(rolling_mean.values[i])
          /\ IsNaN(upper_band.values[i])
          /\ IsNaN(lower_band.values[i])

SMAWidgets == {"sma_flag", "sma_periods"}

BBWidgets == {"bb_flag", "bb_periods", "bb_std"}

RSIWidgets == {"rsi_flag", "rsi_periods", "rsi_upper", "rsi_lower"}

\* C10: a rerun triggered by a widget that is not the indicator's own leaves
\* the indicator's output as the previous run computed it; an indicator's
\* branch runs exactly when its checkbox is set and the frame is not empty;
\* and the frame stays what the provider returned.
IndicatorsIndependent ==
    /\ pc # "load" => df = Frame(history)
    /\ pc = "done" =>
        /\ ("sma" \in computed) <=> (sma_flag /\ Len(history) > 0)
        /\ ("bb" \in computed) <=> (bb_flag /\ Len(history) > 0)
        /\ ("rsi" \in computed) <=> (rsi_flag /\ Len(history) > 0)
        /\ "sma" \notin computed => sma = NoSeries
        /\ "bb" \notin computed => upper_band = NoSeries /\ lower_band = NoSeries
        /\ "rsi" \notin computed => rsi = NoSeries
        /\ (changed # "none" /\ changed \notin SMAWidgets) => sma = prev.sma
        /\ (changed # "none" /\ changed \notin BBWidgets) =>
              upper_band = prev.upper_band /\ lower_band = prev.lower_band
        /\ (changed # "none" /\ changed \notin RSIWidgets) => rsi = prev.rsi

\* C10 witness: a rerun after the Bollinger window changed has moved the
\* bands and left the SMA and the RSI as they were.
OtherWindowChanged ==
    /\ pc = "done"
    /\ changed = "bb_periods"
    /\ {"sma", "bb", "rsi"} \subseteq computed
    /\ upper_band # prev.upper_band
    /\ sma = prev.sma
    /\ rsi = prev.rsi
    /\ \E i \in 1..Len(sma.values) : IsFinite(sma.values[i])

=============================================================================
